---- MODULE Spec2Model ----
(***************************************************************************)
(* Model of the NaturalL5 evaluation core: the persistent Environment      *)
(* (web-runtime-prototype/src/Environment.ts), the construction invariant  *)
(* of RegulativeRuleConclusion (AstNode) and the event protocol types      *)
(* (l5/src/token.ts).                                                      *)
(*                                                                         *)
(* Objects are modelled by reference: `heap` is the sequence of Frame      *)
(* objects ever allocated (index = object identity), an Environment holds  *)
(* the identities of its global frame and of its stack frames.  A Frame's  *)
(* Map<number, FrameSymbol> is the sequence of its entries in insertion    *)
(* order, which is the iteration order of a JavaScript Map.                *)
(***************************************************************************)
EXTENDS Integers, Sequences, FiniteSets, TLC

\* ---------------------------------------------------------------- bounds
\* environments a caller holds when it derives from any of them (MaxEnvs)
\* or only from its newest (MaxChain), and the deepest frame stack built
MaxEnvs == 4
MaxChain == 5
MaxDepth == 2

\* ------------------------------------------------------- input domains
\* env_pos[0] is "global" or a number; "global" is encoded as an integer
\* that is no array index so that it can be compared with the indices.
global == -2

Syms == {"a", "b"}
Slots == {0, 1}
\* frame indices tried by callers: "global", -1, and 0..MaxDepth (the
\* JavaScript index i addresses frames[i], the model's frames[i + 1])
Scopes == {global} \cup (-1..MaxDepth)
LiteralValues == {1, 2}

Literal(v) == [tag |-> "Literal", value |-> v]
Identifier == [tag |-> "Identifier", value |-> 0]
NoAst == [tag |-> "none", value |-> 0]
Expressions == {Identifier}

ResolvedName(s, p1, p2) == [sym |-> s, env_pos |-> <<p1, p2>>]
ResolvedNames == {ResolvedName(s, p1, p2) : s \in Syms, p1 \in Scopes, p2 \in Slots}
NoName == ResolvedName("", global, 0)
NoAddr == <<global, -1>>

FrameSymbol(s, a) == [sym |-> s, ast |-> a]

\* ------------------------------------------------------------ utilities
\* utils.internal_assertion(pred, msg): throws when pred() is false.  The
\* value is TRUE when execution continues past the assertion.
internal_assertion(pred) == pred

\* ---------------------------------------------------------------- Frame
\* A frame is a sequence of [pos, fs] entries in Map insertion order.
Map_has(f, pos) == \E i \in 1..Len(f) : f[i].pos = pos

Map_get(f, pos) == (CHOOSE i \in 1..Len(f) : f[i].pos = pos)

\* Map.set: an existing key keeps its place in the iteration order
Map_set(f, pos, fs) ==
  IF Map_has(f, pos)
    THEN [f EXCEPT ![Map_get(f, pos)] = [pos |-> pos, fs |-> fs]]
    ELSE Append(f, [pos |-> pos, fs |-> fs])

\* mutant: the stored symbol is not compared with the queried one
Frame_lookup_unchecked(f, name) ==
  LET frame_pos == name.env_pos[2]
  IN IF ~Map_has(f, frame_pos)
       THEN [ok |-> FALSE, ast |-> NoAst]
       ELSE [ok |-> TRUE, ast |-> f[Map_get(f, frame_pos)].fs.ast]

Frame_lookup(f, name) ==
  LET frame_pos == name.env_pos[2]
  IN IF ~internal_assertion(Map_has(f, frame_pos))
       THEN [ok |-> FALSE, ast |-> NoAst]
     ELSE LET lookup == f[Map_get(f, frame_pos)].fs
          IN IF ~internal_assertion(name.sym = lookup.sym)
               THEN [ok |-> FALSE, ast |-> NoAst]
               ELSE [ok |-> TRUE, ast |-> lookup.ast]

\* Maybe<number>: [def |-> FALSE] is undefined
Frame_lookup_name(f, sym) ==
  IF \E i \in 1..Len(f) : f[i].fs.sym = sym
    THEN LET i == CHOOSE i \in 1..Len(f) :
                    /\ f[i].fs.sym = sym
                    /\ \A j \in 1..(i - 1) : f[j].fs.sym # sym
         IN [def |-> TRUE, val |-> f[i].pos]
    ELSE [def |-> FALSE, val |-> -1]

\* new Frame(new Map(this.frame_items)): a new object with the same entries
Frame_copy(f) == f

\* mutant: the checks pass but the slot is never written
Frame_set_var_unwritten(f, name, result) ==
  LET frame_pos == name.env_pos[2]
  IN IF ~Map_has(f, frame_pos) THEN [ok |-> FALSE, frame |-> f]
     ELSE IF f[Map_get(f, frame_pos)].fs.sym # name.sym THEN [ok |-> FALSE, frame |-> f]
     ELSE [ok |-> TRUE, frame |-> f]

\* mutates the frame in place: the value is the frame's new content
Frame_set_var(f, name, result) ==
  LET frame_pos == name.env_pos[2]
  IN IF ~internal_assertion(Map_has(f, frame_pos))
       THEN [ok |-> FALSE, frame |-> f]
     ELSE IF ~internal_assertion(f[Map_get(f, frame_pos)].fs.sym = name.sym)
       THEN [ok |-> FALSE, frame |-> f]
     ELSE [ok |-> TRUE,
           frame |-> Map_set(f, frame_pos, FrameSymbol(name.sym, Literal(result)))]

\* mutant: an existing slot is overwritten
Frame_add_var_overwrite(f, name, expr) ==
  [ok |-> TRUE, frame |-> Map_set(f, name.env_pos[2], FrameSymbol(name.sym, expr))]

\* mutant: the slot is written before the assertion is made
Frame_add_var_write_first(f, name, expr) ==
  [ok |-> ~Map_has(f, name.env_pos[2]),
   frame |-> Map_set(f, name.env_pos[2], FrameSymbol(name.sym, expr))]

Frame_add_var(f, name, expr) ==
  IF ~internal_assertion(~Map_has(f, name.env_pos[2]))
    THEN [ok |-> FALSE, frame |-> f]
    ELSE [ok |-> TRUE, frame |-> Map_set(f, name.env_pos[2], FrameSymbol(name.sym, expr))]

\* ---------------------------------------------------------- Environment
\* An Environment is [global_frame |-> id, frames |-> Seq(id)], ids into h.
NoEnv == [global_frame |-> 0, frames |-> <<>>]

\* frames[frameidx] of a JavaScript array: undefined outside 0..length-1
Array_defined(frames, frameidx) == frameidx >= 0 /\ frameidx < Len(frames)

Environment_lookup(h, e, name) ==
  LET frameidx == name.env_pos[1]
  IN IF frameidx = global
       THEN Frame_lookup(h[e.global_frame], name)
     ELSE IF ~internal_assertion(Array_defined(e.frames, frameidx))
       THEN [ok |-> FALSE, ast |-> NoAst]
     ELSE Frame_lookup(h[e.frames[frameidx + 1]], name)

\* this.frames.map((f) => f.copy()) over the first n frames: n new objects
\* mutant: the frames are shared, not copied
Frames_copy_shared(h, frames, n) ==
  [heap |-> h, frames |-> SubSeq(frames, 1, n)]

Frames_copy(h, frames, n) ==
  [heap |-> h \o [i \in 1..n |-> Frame_copy(h[frames[i]])],
   frames |-> [i \in 1..n |-> Len(h) + i]]

\* mutant: the global frame is copied with the others
Environment_copy_deep(h, e) ==
  LET c == Frames_copy(h, e.frames, Len(e.frames))
  IN [heap |-> Append(c.heap, Frame_copy(h[e.global_frame])),
      env |-> [global_frame |-> Len(c.heap) + 1, frames |-> c.frames]]

Environment_copy(h, e) ==
  LET c == Frames_copy(h, e.frames, Len(e.frames))
  IN [heap |-> c.heap,
      env |-> [global_frame |-> e.global_frame, frames |-> c.frames]]

\* A call that throws returns nothing: the objects it allocated before the
\* throw are unreachable and dropped; what it did to objects that existed
\* before the call stays.
Discard(h, hh) == SubSeq(hh, 1, Len(h))

Environment_set_var(h, e, name, result) ==
  LET c == Environment_copy(h, e)
      new_env == c.env
      frameidx == name.env_pos[1]
  IN IF frameidx # global /\ ~internal_assertion(Array_defined(new_env.frames, frameidx))
       THEN [ok |-> FALSE, heap |-> h, env |-> NoEnv]
     ELSE LET frame == IF frameidx = global THEN new_env.global_frame
                                            ELSE new_env.frames[frameidx + 1]
              r == Frame_set_var(c.heap[frame], name, result)
              hh == [c.heap EXCEPT ![frame] = r.frame]
          IN IF ~r.ok THEN [ok |-> FALSE, heap |-> Discard(h, hh), env |-> NoEnv]
             ELSE [ok |-> TRUE, heap |-> hh, env |-> new_env]

\* mutates this (e) in place; e's frames live in h
Environment_add_var_mut(h, e, name, expr) ==
  LET frames == e.frames
      frameidx == name.env_pos[1]
      fail == [ok |-> FALSE, heap |-> h]
  IN IF frameidx # global /\ ~internal_assertion(frameidx = Len(frames) - 1)
       THEN fail
     \* frames[frames.length - 1]! of an empty array is undefined, and the
     \* call of add_var on it throws a TypeError
     ELSE IF frameidx # global /\ ~Array_defined(frames, Len(frames) - 1)
       THEN fail
     ELSE LET frame == IF frameidx = global THEN e.global_frame
                                            ELSE frames[Len(frames)]
              r == Frame_add_var(h[frame], name, expr)
          IN [ok |-> r.ok, heap |-> [h EXCEPT ![frame] = r.frame]]

Environment_add_var(h, e, name, expr) ==
  LET c == Environment_copy(h, e)
      r == Environment_add_var_mut(c.heap, c.env, name, expr)
  IN IF ~r.ok THEN [ok |-> FALSE, heap |-> Discard(h, r.heap), env |-> NoEnv]
     ELSE [ok |-> TRUE, heap |-> r.heap, env |-> c.env]

Environment_add_frame(h, e) ==
  LET c == Frames_copy(h, e.frames, Len(e.frames))
  IN [ok |-> TRUE,
      heap |-> Append(c.heap, <<>>),
      env |-> [global_frame |-> e.global_frame,
               frames |-> Append(c.frames, Len(c.heap) + 1)]]

\* mutant: the assertion admits the empty stack
Environment_remove_frame_lax(h, e) ==
  IF ~(Len(e.frames) >= 0)
    THEN [ok |-> FALSE, heap |-> h, env |-> NoEnv]
    ELSE LET c == Frames_copy(h, e.frames, Len(e.frames) - 1)
         IN [ok |-> TRUE, heap |-> c.heap,
             env |-> [global_frame |-> e.global_frame, frames |-> c.frames]]

Environment_remove_frame(h, e) ==
  IF ~internal_assertion(Len(e.frames) > 0)
    THEN [ok |-> FALSE, heap |-> h, env |-> NoEnv]
    ELSE LET c == Frames_copy(h, e.frames, Len(e.frames) - 1)
         IN [ok |-> TRUE, heap |-> c.heap,
             env |-> [global_frame |-> e.global_frame, frames |-> c.frames]]

Environment_is_global_scope(e) == Len(e.frames) = 0

\* the while loop of lookup_name from frame p1 - 1 down to frame 0
RECURSIVE lookup_name_loop(_, _, _, _)
lookup_name_loop(h, e, sym, p1) ==
  IF p1 > 0
    THEN LET p2 == Frame_lookup_name(h[e.frames[p1]], sym)
         IN IF p2.def THEN [ok |-> TRUE, addr |-> <<p1 - 1, p2.val>>]
            ELSE lookup_name_loop(h, e, sym, p1 - 1)
    ELSE LET p2 == Frame_lookup_name(h[e.global_frame], sym)
         IN IF p2.def THEN [ok |-> TRUE, addr |-> <<global, p2.val>>]
            \* internal_assertion(() => true, ...) passes; throw null
            ELSE [ok |-> FALSE, addr |-> NoAddr]

\* mutant: the global frame is searched before the stack
Environment_lookup_name_global_first(h, e, sym) ==
  LET p2 == Frame_lookup_name(h[e.global_frame], sym)
  IN IF p2.def THEN [ok |-> TRUE, addr |-> <<global, p2.val>>]
     ELSE lookup_name_loop(h, e, sym, Len(e.frames))

\* mutant: an unbound name gives undefined instead of a throw
Environment_lookup_name_maybe(h, e, sym) ==
  LET r == lookup_name_loop(h, e, sym, Len(e.frames))
  IN IF r.ok THEN r ELSE [ok |-> TRUE, addr |-> NoAddr]

\* ok = FALSE: the call threw; ok = TRUE: it returned addr
Environment_lookup_name(h, e, sym) == lookup_name_loop(h, e, sym, Len(e.frames))

\* ------------------------------------------------------------- AstNode
MaxList == 2

\* Maybe<boolean>: true, false or undefined
MaybeBoolean == {"true", "false", "undefined"}

\* x == true of JavaScript, for x a boolean or undefined
EqTrue(x) == x = "true"

Mutations == {[tag |-> "Mutation", revoke |-> b] : b \in BOOLEAN}
Conclusions == {[tag |-> t] : t \in {"RegulativeRuleInvocation", "DeonticTemporalAction"}}

RECURSIVE Lists(_, _)
Lists(S, n) ==
  IF n = 0 THEN {<<>>}
  ELSE Lists(S, n - 1) \cup {Append(l, x) : l \in Lists(S, n - 1), x \in S}

NoNode == [tag |-> "none"]

\* mutant: both flags are required
RegulativeRuleConclusion_both(fulfilled, performed, mutations, conclusions) ==
  IF ~(EqTrue(fulfilled) /\ EqTrue(performed))
    THEN [ok |-> FALSE, node |-> NoNode]
    ELSE [ok |-> TRUE,
          node |-> [tag |-> "RegulativeRuleConclusion",
                    fulfilled |-> fulfilled, performed |-> performed,
                    mutations |-> mutations, conclusions |-> conclusions]]

\* new RegulativeRuleConclusion(...): ok = FALSE when the constructor throws
RegulativeRuleConclusion(fulfilled, performed, mutations, conclusions) ==
  IF ~internal_assertion(EqTrue(fulfilled) \/ EqTrue(performed))
    THEN [ok |-> FALSE, node |-> NoNode]
    ELSE [ok |-> TRUE,
          node |-> [tag |-> "RegulativeRuleConclusion",
                    fulfilled |-> fulfilled, performed |-> performed,
                    mutations |-> mutations, conclusions |-> conclusions]]

NoBuilt == [called |-> FALSE]

\* ------------------------------------------------------- event protocol
MaxRequests == 3

\* token.ts: the events; an ErrorEvent carries the error
NoEvent == [tag |-> "none"]
EventRequest(cont) == [tag |-> "EventRequest", cont |-> cont]
EventResult(result) == [tag |-> "EventResult", result |-> result]
ErrorEvent(error) == [tag |-> "ErrorEvent", error |-> error]

\* the values a host may pass to a continuation, and the types awaited
LiteralTypes == {"number", "boolean"}
HostValues == {[type |-> t, value |-> v] : t \in LiteralTypes, v \in {0, 1}}
NoHost == [tag |-> "none", cont |-> 0]

\* mutant: a continuation resumes the session each time it is invoked
Continue_again(st, cs, lg, k, x) ==
  IF x.type = cs[k].awaits
    THEN [status |-> "Running",
          conts |-> [cs EXCEPT ![k].invoked = TRUE, ![k].resumed = @ + 1],
          log |-> Append(lg, [cont |-> k, value |-> x.value]),
          error |-> "none"]
    ELSE [status |-> "Failed", conts |-> [cs EXCEPT ![k].invoked = TRUE],
          log |-> lg, error |-> "ProtocolError"]

\* Continue_t, (x: LiteralType) => void: the continuation k of the session
\* invoked with x.  It resumes the suspended session, once, with a value of
\* the awaited type; any other invocation is a ProtocolError.
Continue_t(st, cs, lg, k, x) ==
  IF st = "Suspended" /\ ~cs[k].invoked /\ x.type = cs[k].awaits
    THEN [status |-> "Running",
          conts |-> [cs EXCEPT ![k].invoked = TRUE, ![k].resumed = @ + 1],
          log |-> Append(lg, [cont |-> k, value |-> x.value]),
          error |-> "none"]
    ELSE [status |-> "Failed", conts |-> [cs EXCEPT ![k].invoked = TRUE],
          log |-> lg, error |-> "ProtocolError"]

\* ---------------------------------------------------------------- state
VARIABLES
  heap,   \* the Frame objects, by identity
  envs,   \* the Environment values the caller holds, in order of creation
  path,   \* per environment: add_frame / remove_frame calls on its derivation
  last,   \* the last call and its outcome
  built,  \* the last construction of a RegulativeRuleConclusion
  status, \* the evaluation session's protocol state
  conts,  \* the continuations handed out: how often each was invoked
  log,    \* the mutations the session has applied, in order
  output, \* the last event sent to the host
  host    \* the last thing the host did

envVars == <<heap, envs, path, last>>
sessionVars == <<status, conts, log, output, host>>
vars == <<heap, envs, path, last, built, status, conts, log, output, host>>

Call(op, i, name, v, expr, res) ==
  [op |-> op, env |-> i, name |-> name, val |-> v, expr |-> expr, res |-> res]

\* Environment.empty(): one new, empty global frame and no stack frame
Environment_empty == [global_frame |-> 1, frames |-> <<>>]

Init ==
  /\ heap = << <<>> >>
  /\ envs = <<Environment_empty>>
  /\ path = <<[adds |-> 0, removes |-> 0]>>
  /\ last = Call("empty", 0, NoName, 0, NoAst, 1)
  /\ built = NoBuilt
  /\ status = "Idle"
  /\ conts = <<>>
  /\ log = <<>>
  /\ output = NoEvent
  /\ host = NoHost

\* The outcome r of a call on envs[i] that returns: the caller keeps the
\* returned environment.  A call that throws returns nothing to keep.
Outcome(op, i, name, v, expr, r, p) ==
  /\ r.ok
  /\ heap' = r.heap
  /\ envs' = Append(envs, r.env)
  /\ path' = Append(path, p)
  /\ last' = Call(op, i, name, v, expr, Len(envs) + 1)
  /\ UNCHANGED <<built, sessionVars>>

set_var(i, name, v) ==
  Outcome("set_var", i, name, v, NoAst,
          Environment_set_var(heap, envs[i], name, v), path[i])

add_var(i, name, expr) ==
  Outcome("add_var", i, name, 0, expr,
          Environment_add_var(heap, envs[i], name, expr), path[i])

add_frame(i) ==
  /\ Len(envs[i].frames) < MaxDepth
  /\ Outcome("add_frame", i, NoName, 0, NoAst,
             Environment_add_frame(heap, envs[i]),
             [path[i] EXCEPT !.adds = @ + 1])

remove_frame(i) ==
  Outcome("remove_frame", i, NoName, 0, NoAst,
          Environment_remove_frame(heap, envs[i]),
          [path[i] EXCEPT !.removes = @ + 1])

\* a caller that derives environments from any environment it holds
Next ==
  \/ \E i \in 1..Len(envs), name \in ResolvedNames, v \in LiteralValues :
       Len(envs) < MaxEnvs /\ set_var(i, name, v)
  \/ \E i \in 1..Len(envs), name \in ResolvedNames, expr \in Expressions :
       Len(envs) < MaxEnvs /\ add_var(i, name, expr)
  \/ \E i \in 1..Len(envs) : Len(envs) < MaxEnvs /\ add_frame(i)
  \/ \E i \in 1..Len(envs) : Len(envs) < MaxEnvs /\ remove_frame(i)

Spec == Init /\ [][Next]_vars

\* a caller that threads one environment: each call is on the newest one
NextChain ==
  \/ \E name \in ResolvedNames, v \in LiteralValues :
       Len(envs) < MaxChain /\ set_var(Len(envs), name, v)
  \/ \E name \in ResolvedNames, expr \in Expressions :
       Len(envs) < MaxChain /\ add_var(Len(envs), name, expr)
  \/ Len(envs) < MaxChain /\ add_frame(Len(envs))
  \/ Len(envs) < MaxChain /\ remove_frame(Len(envs))

SpecChain == Init /\ [][NextChain]_vars

\* --------------------------------------------------- evaluation session
\* EventValidate: the host lets the session proceed
Validate ==
  /\ status = "Idle"
  /\ status' = "Running"
  /\ host' = [tag |-> "EventValidate", cont |-> 0]
  /\ UNCHANGED <<conts, log, output, envVars, built>>

\* the evaluator needs a fact: it suspends and hands out a continuation
Request(t) ==
  /\ status = "Running"
  /\ Len(conts) < MaxRequests
  /\ status' = "Suspended"
  /\ conts' = Append(conts, [awaits |-> t, invoked |-> FALSE, resumed |-> 0])
  /\ output' = EventRequest(Len(conts) + 1)
  /\ host' = NoHost
  /\ UNCHANGED <<log, envVars, built>>

\* the host invokes a continuation it was handed; a failed session is over
Invoke(k, x) ==
  /\ status # "Failed"
  /\ LET r == Continue_t(status, conts, log, k, x)
     IN /\ status' = r.status
        /\ conts' = r.conts
        /\ log' = r.log
        /\ output' = IF r.error = "none" THEN output ELSE ErrorEvent(r.error)
  /\ host' = [tag |-> "invoke", cont |-> k]
  /\ UNCHANGED <<envVars, built>>

\* the evaluation ends with its result
Complete ==
  /\ status = "Running"
  /\ status' = "Completed"
  /\ output' = EventResult(Len(log))
  /\ host' = NoHost
  /\ UNCHANGED <<conts, log, envVars, built>>

NextSession ==
  \/ Validate
  \/ \E t \in LiteralTypes : Request(t)
  \/ \E k \in 1..Len(conts), x \in HostValues : Invoke(k, x)
  \/ Complete

SpecSession == Init /\ [][NextSession]_vars

\* ------------------------------------------------ construction of AST nodes
new_RegulativeRuleConclusion(fulfilled, performed, mutations, conclusions) ==
  /\ built' = [called |-> TRUE,
               fulfilled |-> fulfilled, performed |-> performed,
               mutations |-> mutations, conclusions |-> conclusions,
               result |-> RegulativeRuleConclusion(fulfilled, performed,
                                                   mutations, conclusions)]
  /\ UNCHANGED <<envVars, sessionVars>>

NextAst ==
  \E fulfilled \in MaybeBoolean, performed \in MaybeBoolean,
     mutations \in Lists(Mutations, MaxList), conclusions \in Lists(Conclusions, MaxList) :
    new_RegulativeRuleConclusion(fulfilled, performed, mutations, conclusions)

SpecAst == Init /\ [][NextAst]_vars

\* ------------------------------------------------- vocabulary of the claims
\* what a frame holds, read off the heap without the code's accessors
IsGlobal(name) == name.env_pos[1] = global

HasFrame(e, name) ==
  IsGlobal(name) \/ (name.env_pos[1] >= 0 /\ name.env_pos[1] < Len(e.frames))

FrameOf(h, e, name) ==
  IF IsGlobal(name) THEN h[e.global_frame] ELSE h[e.frames[name.env_pos[1] + 1]]

SlotBound(h, e, name) ==
  /\ HasFrame(e, name)
  /\ \E k \in DOMAIN FrameOf(h, e, name) : FrameOf(h, e, name)[k].pos = name.env_pos[2]

SlotHolds(h, e, name) ==
  /\ HasFrame(e, name)
  /\ \E k \in DOMAIN FrameOf(h, e, name) :
       /\ FrameOf(h, e, name)[k].pos = name.env_pos[2]
       /\ FrameOf(h, e, name)[k].fs.sym = name.sym

EnvIds == 1..Len(envs)

IsGlobalWrite(call) == call.op \in {"set_var", "add_var"} /\ IsGlobal(call.name)

\* C1 (as stated): no operation changes any lookup, at a stack address or at
\* a "global" address, on an environment that existed before the operation.
C1_NonDestructive ==
  [][\A i \in EnvIds : \A n \in ResolvedNames :
       Environment_lookup(heap', envs[i], n) = Environment_lookup(heap, envs[i], n)]_vars

\* C1 (amended): an operation changes no lookup on an environment that
\* existed before it, except lookups at "global" addresses when the
\* operation is a set_var or add_var at a "global" address.
C1_NonDestructiveButGlobal ==
  [][\A i \in EnvIds : \A n \in ResolvedNames :
       (~IsGlobal(n) \/ ~IsGlobalWrite(last'))
         => Environment_lookup(heap', envs[i], n) = Environment_lookup(heap, envs[i], n)]_vars

\* a set_var at a stack address returned, and the environment it was called
\* on and the one that one was derived from still give the old binding
C1_Witness ==
  /\ last.op = "set_var"
  /\ ~IsGlobal(last.name)
  /\ last.env > 1
  /\ \A j \in 1..last.env :
       Environment_lookup(heap, envs[j], last.name).ok =>
         Environment_lookup(heap, envs[j], last.name)
           # Environment_lookup(heap, envs[last.res], last.name)
  /\ Environment_lookup(heap, envs[last.env], last.name).ok

\* C2: for a name bound at its address (every binding of the model was made
\* by add_var), set_var returns, and lookup of the name in the returned
\* environment gives Literal(v); the slot still carries the name's symbol.
C2_SetThenLookup ==
  \A i \in EnvIds : \A n \in ResolvedNames :
    SlotHolds(heap, envs[i], n) =>
      \A v \in LiteralValues : \A r \in {Environment_set_var(heap, envs[i], n, v)} :
        /\ r.ok
        /\ Environment_lookup(r.heap, r.env, n) = [ok |-> TRUE, ast |-> Literal(v)]
        /\ SlotHolds(r.heap, r.env, n)

\* a set_var on a stack slot that add_var had bound to an expression
\* returned: the new environment gives the literal, the old the expression
C2_Witness ==
  /\ last.op = "set_var"
  /\ ~IsGlobal(last.name)
  /\ Environment_lookup(heap, envs[last.res], last.name)
       = [ok |-> TRUE, ast |-> Literal(last.val)]
  /\ Environment_lookup(heap, envs[last.env], last.name)
       = [ok |-> TRUE, ast |-> Identifier]

\* C3: all environments derived from the initial one give the same lookup
\* result at every "global" address.
C3_GlobalShared ==
  \A i \in EnvIds : \A j \in EnvIds : \A n \in ResolvedNames :
    IsGlobal(n) =>
      Environment_lookup(heap, envs[i], n) = Environment_lookup(heap, envs[j], n)

\* a global set_var made through a derived environment is seen through the
\* initial environment and through one derived later than the caller's
C3_Witness ==
  /\ last.op = "set_var"
  /\ IsGlobal(last.name)
  /\ last.env \notin {1, last.res - 1}
  /\ Len(envs[last.env].frames) > 0
  /\ \A j \in EnvIds :
       Environment_lookup(heap, envs[j], last.name)
         = [ok |-> TRUE, ast |-> Literal(last.val)]

\* C4: lookup and set_var fail when the scope index is not "global" and
\* outside the frame stack, when the slot is unbound in the addressed frame,
\* when the slot's symbol differs from the queried one; else they succeed.
\* A failed lookup returns no binding, a failed set_var no environment.
C4_FailureCases ==
  \A i \in EnvIds : \A n \in ResolvedNames :
    \A fails \in {\/ ~HasFrame(envs[i], n)
                  \/ ~SlotBound(heap, envs[i], n)
                  \/ ~SlotHolds(heap, envs[i], n)} :
      /\ \A l \in {Environment_lookup(heap, envs[i], n)} :
           /\ l.ok = ~fails
           /\ ~l.ok => l.ast = NoAst
      /\ \A v \in LiteralValues : \A r \in {Environment_set_var(heap, envs[i], n, v)} :
           /\ r.ok = ~fails
           /\ ~r.ok => r.env = NoEnv

\* one environment on which lookup and set_var fail for each of the three
\* reasons and succeed for a fourth name
C4_Witness ==
  \E i \in EnvIds :
    /\ \E n \in ResolvedNames :
         ~HasFrame(envs[i], n) /\ ~Environment_lookup(heap, envs[i], n).ok
          /\ ~Environment_set_var(heap, envs[i], n, 1).ok
    /\ \E n \in ResolvedNames :
         /\ ~IsGlobal(n) /\ HasFrame(envs[i], n) /\ ~SlotBound(heap, envs[i], n)
         /\ ~Environment_lookup(heap, envs[i], n).ok
         /\ ~Environment_set_var(heap, envs[i], n, 1).ok
    /\ \E n \in ResolvedNames :
         /\ ~IsGlobal(n) /\ SlotBound(heap, envs[i], n) /\ ~SlotHolds(heap, envs[i], n)
         /\ ~Environment_lookup(heap, envs[i], n).ok
         /\ ~Environment_set_var(heap, envs[i], n, 1).ok
    /\ \E n \in ResolvedNames :
         /\ SlotHolds(heap, envs[i], n)
         /\ Environment_lookup(heap, envs[i], n).ok
         /\ Environment_set_var(heap, envs[i], n, 1).ok

\* C5: add_var at an address whose slot is bound in the addressed frame
\* fails for every symbol and expression, and rebinds nothing.
C5_AddBoundFails ==
  \A i \in EnvIds : \A n \in ResolvedNames :
    SlotBound(heap, envs[i], n) =>
      \A expr \in Expressions : \A r \in {Environment_add_var(heap, envs[i], n, expr)} :
        ~r.ok /\ r.env = NoEnv /\ r.heap = heap

\* an environment with a bound global slot and a bound slot in its innermost
\* frame, where add_var fails on both, with the bound symbol and another
C5_Witness ==
  \E i \in EnvIds : \E g \in ResolvedNames : \E n \in ResolvedNames :
    /\ IsGlobal(g) /\ SlotHolds(heap, envs[i], g)
    /\ n.env_pos[1] = Len(envs[i].frames) - 1 /\ SlotHolds(heap, envs[i], n)
    /\ \A s \in Syms :
         /\ ~Environment_add_var(heap, envs[i], [g EXCEPT !.sym = s], Identifier).ok
         /\ ~Environment_add_var(heap, envs[i], [n EXCEPT !.sym = s], Identifier).ok

\* C6: remove_frame fails exactly when the frame stack is empty, which is
\* exactly when is_global_scope() is true and exactly when the add_frame
\* and remove_frame calls on the way to the environment are equal in
\* number; otherwise it returns the environment without its innermost
\* frame, the other frames and the global frame bound as before.
C6_RemoveFrame ==
  \A i \in EnvIds :
    LET e == envs[i]
        r == Environment_remove_frame(heap, e)
    IN /\ ~r.ok = (Len(e.frames) = 0)
       /\ Environment_is_global_scope(e) = (Len(e.frames) = 0)
       /\ Environment_is_global_scope(e) = (path[i].adds = path[i].removes)
       /\ r.ok =>
            /\ Len(r.env.frames) = Len(e.frames) - 1
            /\ \A k \in 1..Len(r.env.frames) :
                 r.heap[r.env.frames[k]] = heap[e.frames[k]]
            /\ r.heap[r.env.global_frame] = heap[e.global_frame]
       /\ ~r.ok => r.env = NoEnv

\* remove_frame on a two-frame stack returned an environment that keeps the
\* bound outer frame, and it fails on the initial, empty stack
C6_Witness ==
  /\ last.op = "remove_frame"
  /\ Len(envs[last.res].frames) = 1
  /\ heap[envs[last.res].frames[1]] # <<>>
  /\ heap[envs[last.res].frames[1]] = heap[envs[last.env].frames[1]]
  /\ ~Environment_remove_frame(heap, envs[1]).ok

\* the frames of e (0-based stack indices) that bind sym at some slot
BindsSym(f, sym) == \E k \in DOMAIN f : f[k].fs.sym = sym

StackBinders(h, e, sym) == {k \in 0..(Len(e.frames) - 1) : BindsSym(h[e.frames[k + 1]], sym)}

BoundSomewhere(h, e, sym) == StackBinders(h, e, sym) # {} \/ BindsSym(h[e.global_frame], sym)

Innermost(S) == CHOOSE k \in S : \A j \in S : j <= k

\* C7: for a bare name bound in some frame, lookup_name returns an address
\* in the innermost stack frame that binds the symbol, at a slot bound to
\* that symbol there, and a "global" address only when no stack frame binds
\* it; lookup of the symbol at the returned address succeeds.
C7_LookupNameInnermost ==
  \A i \in EnvIds : \A sym \in Syms :
    BoundSomewhere(heap, envs[i], sym) =>
      LET r == Environment_lookup_name(heap, envs[i], sym)
          n == ResolvedName(sym, r.addr[1], r.addr[2])
          B == StackBinders(heap, envs[i], sym)
      IN /\ r.ok
         /\ r.addr[1] = (IF B = {} THEN global ELSE Innermost(B))
         /\ SlotHolds(heap, envs[i], n)
         /\ Environment_lookup(heap, envs[i], n).ok

\* an environment whose two stack frames both bind the symbol: the address
\* is in the inner one
C7_Witness ==
  \E i \in EnvIds : \E sym \in Syms :
    /\ StackBinders(heap, envs[i], sym) = {0, 1}
    /\ Environment_lookup_name(heap, envs[i], sym).ok
    /\ Environment_lookup_name(heap, envs[i], sym).addr[1] = 1

\* C8 (as stated): for a bare name bound in no frame, lookup_name returns
\* to its caller, with the absent address, instead of raising.
C8_ReturnsAbsent ==
  \A i \in EnvIds : \A sym \in Syms :
    ~BoundSomewhere(heap, envs[i], sym) =>
      Environment_lookup_name(heap, envs[i], sym) = [ok |-> TRUE, addr |-> NoAddr]

\* C8 (amended): for a bare name bound in no frame, lookup_name raises: it
\* returns nothing, neither an address nor an absent result.
C8_RaisesWhenUnbound ==
  \A i \in EnvIds : \A sym \in Syms :
    ~BoundSomewhere(heap, envs[i], sym) =>
      Environment_lookup_name(heap, envs[i], sym) = [ok |-> FALSE, addr |-> NoAddr]

\* an environment with a stack frame and bindings in the stack and in the
\* global frame, none of them of the name looked up: lookup_name raises
C8_Witness ==
  \E i \in EnvIds : \E sym \in Syms :
    /\ Len(envs[i].frames) > 0
    /\ heap[envs[i].frames[1]] # <<>>
    /\ heap[envs[i].global_frame] # <<>>
    /\ ~BoundSomewhere(heap, envs[i], sym)
    /\ ~Environment_lookup_name(heap, envs[i], sym).ok

\* C9: constructing a RegulativeRuleConclusion fails when neither fulfilled
\* nor performed is true (each false or absent), and succeeds when at least
\* one is true, whatever the mutations and nested conclusions.
C9_ConclusionNeedsFlag ==
  built.called =>
    /\ built.result.ok = ("true" \in {built.fulfilled, built.performed})
    /\ ~built.result.ok => built.result.node = NoNode
    /\ built.result.ok =>
         /\ built.result.node.mutations = built.mutations
         /\ built.result.node.conclusions = built.conclusions

\* a construction with fulfilled absent and performed false failed, with
\* mutations and nested conclusions given
C9_Witness ==
  /\ built.called
  /\ built.fulfilled = "undefined"
  /\ built.performed = "false"
  /\ built.mutations # <<>>
  /\ built.conclusions # <<>>
  /\ ~built.result.ok

\* C10: invoking a continuation that was already invoked yields a
\* ProtocolError and applies no mutation, and no continuation resumes the
\* session (Suspended to Running) more than once.
C10_ContinuationOnce ==
  [][/\ \A k \in 1..Len(conts') : conts'[k].resumed <= 1
     /\ \A k \in 1..Len(conts) :
          (conts[k].invoked /\ host' = [tag |-> "invoke", cont |-> k])
            => /\ output' = ErrorEvent("ProtocolError")
               /\ status' = "Failed"
               /\ log' = log]_vars

\* a continuation that had resumed the session was invoked again, while a
\* later request was pending: a ProtocolError and no second mutation
C10_Witness ==
  /\ host.tag = "invoke"
  /\ host.cont < Len(conts)
  /\ conts[host.cont].resumed = 1
  /\ output = ErrorEvent("ProtocolError")
  /\ Len(log) = Len(conts) - 1

\* the lookups on e, at every address, are the same in heap hh as in heap h
SameLookups(h, hh, e) ==
  \/ hh = h
  \/ \A m \in ResolvedNames : Environment_lookup(hh, e, m) = Environment_lookup(h, e, m)

\* C11: a set_var, add_var or remove_frame that fails leaves every lookup
\* on the environment it was called on, at stack and at "global" addresses,
\* as it was before the call.
C11_FailureChangesNothing ==
  \A i \in EnvIds :
    /\ \A n \in ResolvedNames :
         /\ \A v \in LiteralValues : \A r \in {Environment_set_var(heap, envs[i], n, v)} :
              ~r.ok => SameLookups(heap, r.heap, envs[i])
         /\ \A expr \in Expressions : \A r \in {Environment_add_var(heap, envs[i], n, expr)} :
              ~r.ok => SameLookups(heap, r.heap, envs[i])
    /\ \A r \in {Environment_remove_frame(heap, envs[i])} :
         ~r.ok => SameLookups(heap, r.heap, envs[i])

\* an environment with a bound global slot and a bound stack slot on which
\* set_var fails for a scope out of range, an unbound slot and a symbol
\* mismatch, add_var for a bound slot (global and stack) and for a frame
\* that is not the innermost; and remove_frame fails on the empty stack
C11_Witness ==
  /\ \E i \in EnvIds :
       /\ Len(envs[i].frames) = 1
       /\ \E g \in ResolvedNames :
            /\ IsGlobal(g) /\ Environment_lookup(heap, envs[i], g).ok
            /\ ~Environment_add_var(heap, envs[i], [g EXCEPT !.sym = "b"], Identifier).ok
            /\ ~Environment_add_var(heap, envs[i], [g EXCEPT !.sym = "a"], Identifier).ok
       /\ \E n \in ResolvedNames :
            /\ n.env_pos[1] = 0 /\ Environment_lookup(heap, envs[i], n).ok
            /\ ~Environment_add_var(heap, envs[i], n, Identifier).ok
            /\ \E s \in Syms : ~Environment_set_var(heap, envs[i], [n EXCEPT !.sym = s], 1).ok
            /\ \E p \in Slots :
                 ~Environment_set_var(heap, envs[i], [n EXCEPT !.env_pos[2] = p], 1).ok
            /\ ~Environment_set_var(heap, envs[i], [n EXCEPT !.env_pos[1] = 1], 1).ok
            /\ \E p \in Slots :
                 /\ ~SlotBound(heap, envs[i], [n EXCEPT !.env_pos[2] = p])
                 /\ ~Environment_add_var(heap, envs[i],
                        [n EXCEPT !.env_pos[1] = 1, !.env_pos[2] = p], Identifier).ok
  /\ \E i \in EnvIds :
       /\ heap[envs[i].global_frame] # <<>>
       /\ ~Environment_remove_frame(heap, envs[i]).ok

====
